---- MODULE Spec2Model ----
(***************************************************************************)
(* Model of the useForm composable of vue-valibot (src/src/index.ts and    *)
(* its later revision src/unnamed/part_005): the submit state machine, the *)
(* reactive cells it reads and writes, the validation engine contract as   *)
(* the tests exercise it, and the user code (submit callback, onErrors,    *)
(* input and schema getters) as nondeterministic choices.                  *)
(*                                                                         *)
(* JavaScript is single threaded: an action is one synchronous run of code *)
(* between two suspension points (await / promise reaction).               *)
(***************************************************************************)
EXTENDS Integers, Sequences, FiniteSets, TLC

\* Bounds of the model.
MaxCalls == 2      \* submit calls whose caller has not been resumed yet, at one time
MaxLen == 1        \* longest value of input.foo

----------------------------------------------------------------------------
\* JavaScript values.

Undefined == [t |-> "undefined"]
Num(n) == [t |-> "number", n |-> n]
Str(s) == [t |-> "string", s |-> s]
Obj(foo) == [t |-> "object", foo |-> foo]

\* Characters of input.foo: a space and a letter.
SP == 0
CH == 1

RECURSIVE StringsUpTo(_)
StringsUpTo(n) ==
  IF n = 0 THEN {<<>>}
  ELSE LET shorter == StringsUpTo(n - 1)
       IN shorter \cup {Append(s, c) : s \in {x \in shorter : Len(x) = n - 1}, c \in {SP, CH}}

\* What dereferencing the input can give: { foo: <string> }, or undefined.
InputValues == {Undefined} \cup {Obj(s) : s \in StringsUpTo(MaxLen)}

\* Error objects user code throws.
GenericError == [t |-> "Error", message |-> "Fail"]
SubmitError(errors) == [t |-> "SubmitError", message |-> "Error submitting form.", errors |-> errors]
EngineError == [t |-> "Error", message |-> "Engine failure"]
GetterError == [t |-> "Error", message |-> "Getter failure"]
OnErrorsError == [t |-> "Error", message |-> "onErrors failure"]

\* Reports user code builds by hand.
ManualReport == [root |-> <<"Input required.">>, nested |-> <<>>]
EmptyReport == [root |-> <<>>, nested |-> <<>>]
UserReports == {ManualReport, EmptyReport}

\* Values the submit callback returns.
ReturnValues == {Undefined, Num(123)}

----------------------------------------------------------------------------
\* The validation engine, as the tests use it:
\*   v.object({ foo: v.string([v.toTrimmed(), v.minLength(min, "Please enter foo.")]) })
\* with min read from mutable state by a schema getter.

Schema(min) == [t |-> "schema", minLength |-> min]

\* v.pipe(v.any(), v.transform(() => 123))
TransformSchema == [t |-> "schema", transform |-> Num(123)]

RECURSIVE TrimStart(_)
TrimStart(s) ==
  IF s # <<>> /\ Head(s) = SP THEN TrimStart(Tail(s)) ELSE s

RECURSIVE TrimEnd(_)
TrimEnd(s) ==
  IF s # <<>> /\ s[Len(s)] = SP THEN TrimEnd(SubSeq(s, 1, Len(s) - 1)) ELSE s

toTrimmed(s) == TrimEnd(TrimStart(s))

Issue(path, message) == [path |-> path, message |-> message]

safeParse(schema, input) ==
  IF schema = TransformSchema
  THEN [success |-> TRUE, output |-> schema.transform]
  ELSE IF input.t # "object"
  THEN [success |-> FALSE, issues |-> <<Issue(<<>>, "Invalid type")>>]
  ELSE LET out == toTrimmed(input.foo)
       IN IF Len(out) < schema.minLength
          THEN [success |-> FALSE, issues |-> <<Issue(<<"foo">>, "Please enter foo.")>>]
          ELSE [success |-> TRUE, output |-> Obj(out)]

\* flatten: messages of the issues without a path go to root, the others to
\* nested under their path; a part with no message is left out.
RECURSIVE RootMessages(_)
RootMessages(issues) ==
  IF issues = <<>> THEN <<>>
  ELSE (IF Head(issues).path = <<>> THEN <<Head(issues).message>> ELSE <<>>)
       \o RootMessages(Tail(issues))

RECURSIVE NestedMessages(_, _)
NestedMessages(issues, path) ==
  IF issues = <<>> THEN <<>>
  ELSE (IF Head(issues).path = path THEN <<Head(issues).message>> ELSE <<>>)
       \o NestedMessages(Tail(issues), path)

flatten(issues) ==
  LET root == RootMessages(issues)
      foo == NestedMessages(issues, <<"foo">>)
  IN CASE root # <<>> /\ foo # <<>> -> [root |-> root, nested |-> <<[path |-> "foo", messages |-> foo]>>]
       [] root # <<>> /\ foo = <<>> -> [root |-> root]
       [] root = <<>> /\ foo # <<>> -> [nested |-> <<[path |-> "foo", messages |-> foo]>>]
       [] OTHER -> [nested |-> <<>>]

----------------------------------------------------------------------------
\* State.

VARIABLES
  cfg,          \* per controller: the options useForm was called with
  submitting,   \* the submitting cells (Ref<boolean>)
  submitted,    \* the submitted cells (Ref<boolean>)
  errors,       \* the errors cells (Ref<FlatErrors | undefined>)
  form,         \* the form cells: "none" (no element), "valid" or "invalid"
  inputVal,     \* what dereferencing options.input gives at the moment
  schemaMin,    \* the mutable state the schema getter reads
  calls,        \* the submit calls whose caller has not been resumed yet
  watcher       \* useParse: its flush mode, its three cells, its queued job

vars == <<cfg, submitting, submitted, errors, form, inputVal, schemaMin, calls, watcher>>

cells == <<submitting, submitted, errors>>
env == <<form, inputVal, schemaMin>>

Controllers == 1..Len(cfg)
CallIds == 1..Len(calls)

\* The arguments submit is called with.
ArgLists == {<<>>, <<Str("foo"), Str("bar")>>}

\* useForm(optionsOrSubmit): the shapes of the argument.  shortcut is the
\* bare callback (or nothing at all when hasSubmit is false).  The schema of
\* a controller is the object schema behind a getter, or, with anySchema,
\* the transforming schema that accepts anything.
----------------------------------------------------------------------------
\* useParse(options, watchOptions): the effect that validates the input
\* against the schema and publishes result, output and errors.

\* useParse was not called.
NoWatcher ==
  [mode |-> "none", dirty |-> FALSE, flagAtChange |-> FALSE,
   result |-> Undefined, output |-> Undefined, errors |-> Undefined]

\* output.value left as it was when the validation fails.
Evaluate_KeepsOutput(w, schema, input) ==
  LET res == safeParse(schema, input)
  IN IF res.success
     THEN [w EXCEPT !.dirty = FALSE, !.result = res, !.output = res.output, !.errors = Undefined]
     ELSE [w EXCEPT !.dirty = FALSE, !.result = res, !.errors = flatten(res.issues)]

\* One run of the effect.
Evaluate(w, schema, input) ==
  LET res == safeParse(schema, input)
  IN IF res.success
     THEN [w EXCEPT !.dirty = FALSE, !.result = res, !.output = res.output, !.errors = Undefined]
     ELSE [w EXCEPT !.dirty = FALSE, !.result = res, !.output = Undefined,
                    !.errors = flatten(res.issues)]

\* The effect not triggered by a change.
OnChange_Never(w, schema, input) ==
  [w EXCEPT !.flagAtChange = \E c \in DOMAIN submitting : submitting[c]]

\* A dependency of the effect has changed: with flush "sync" the effect
\* runs within the assignment, otherwise its job is queued.  flagAtChange
\* records whether a submitting flag was up at the change.
OnChange(w, schema, input) ==
  LET seen == [w EXCEPT !.flagAtChange = \E c \in DOMAIN submitting : submitting[c]]
  IN CASE w.mode = "sync" -> Evaluate(seen, schema, input)
       [] w.mode = "pre" -> [seen EXCEPT !.dirty = TRUE]
       [] OTHER -> w

\* watchEffect runs the effect once when it is created.
NewWatcher(mode, schema, input) ==
  Evaluate([NoWatcher EXCEPT !.mode = mode], schema, input)

\* No cell is supplied in the options.
NoCells == [form |-> 0, errors |-> 0, submitting |-> 0, submitted |-> 0]

Config(shortcut, hasInput, hasSchema, hasSubmit, hasOnErrors, cell) ==
  [shortcut |-> shortcut, hasInput |-> hasInput, hasSchema |-> hasSchema,
   hasSubmit |-> hasSubmit, hasOnErrors |-> hasOnErrors, anySchema |-> FALSE,
   supplied |-> NoCells,
   formCell |-> cell, errorsCell |-> cell, submittingCell |-> cell, submittedCell |-> cell]

Configs(cell) ==
  {Config(TRUE, FALSE, FALSE, hs, FALSE, cell) : hs \in BOOLEAN}
  \cup {Config(FALSE, hi, hsc, hs, ho, cell) : hi \in BOOLEAN, hsc \in BOOLEAN, hs \in BOOLEAN, ho \in BOOLEAN}
  \cup {[Config(FALSE, hi, TRUE, hs, ho, cell) EXCEPT !.anySchema = TRUE] :
           hi \in BOOLEAN, hs \in BOOLEAN, ho \in BOOLEAN}

\* A submit call: the locals of one activation of the async function and a
\* record of what it did.
NewCall(c, args) ==
  [ctrl |-> c, args |-> args,
   pc |-> "start",
   input |-> Undefined, schema |-> Undefined, res |-> Undefined,
   thenResult |-> Undefined, chainResult |-> Undefined, returnValue |-> Undefined,
   raised |-> FALSE, lowered |-> FALSE,
   formChecks |-> 0, formReports |-> 0, derefs |-> <<>>, derefFlags |-> <<>>, parsed |-> 0,
   cbCalls |-> 0, cbArgs |-> <<>>, cbAssigned |-> <<>>, onErrorsArgs |-> <<>>,
   hadErrors |-> FALSE, hadSubmitted |-> FALSE, afterThrow |-> FALSE,
   onErrorsThrew |-> FALSE,
   state |-> "pending", value |-> Undefined]

\* No call.
Idle == [NewCall(1, <<>>) EXCEPT !.pc = "idle"]

Init ==
  /\ cfg \in {<<k>> : k \in Configs(1)}
  /\ submitting = <<FALSE>>
  /\ submitted = <<FALSE>>
  /\ errors = <<Undefined>>
  /\ form = <<"none">>
  /\ inputVal = IF cfg[1].hasInput THEN Obj(<<>>) ELSE Undefined
  /\ schemaMin = 1
  /\ calls = [i \in 1..MaxCalls |-> Idle]
  /\ watcher = NoWatcher

\* No such cell is used in place of the own one.
UseCell_Own(supplied, own) == own

\* options.submitting ?? ref(false), and the like for form, submitted and
\* errors: the cell the caller supplied, or else a cell of the controller's
\* own.  No cell supplied is written 0.
UseCell(supplied, own) == IF supplied = 0 THEN own ELSE supplied

\* Controller number c built from options of shape k, with the cells the
\* caller supplied in the options.
Build(k, c, supplied) ==
  [k EXCEPT !.supplied = supplied,
            !.formCell = UseCell(supplied.form, c),
            !.errorsCell = UseCell(supplied.errors, c),
            !.submittingCell = UseCell(supplied.submitting, c),
            !.submittedCell = UseCell(supplied.submitted, c)]

\* const submitting = ref(false): the cell the caller makes and hands to
\* both controllers, and likewise the form element.
SharedCell == 1

\* Two actions of one form that share the form element and the submitting
\* flag: the first validates an input and reports errors, the second has a
\* callback only.  Each has its own submitted and errors.
SharedFlagPairs ==
  {<<Build(Config(FALSE, TRUE, TRUE, TRUE, TRUE, 1), 1, NoCells),
     Build(Config(FALSE, FALSE, FALSE, TRUE, FALSE, 2), 2,
           [NoCells EXCEPT !.submitting = SharedCell, !.form = SharedCell])>>}

InitShared ==
  /\ cfg \in SharedFlagPairs
  /\ submitting = <<FALSE, FALSE>>
  /\ submitted = <<FALSE, FALSE>>
  /\ errors = <<Undefined, Undefined>>
  /\ form = <<"none", "none">>
  /\ inputVal = Obj(<<>>)
  /\ schemaMin = 1
  /\ calls = [i \in 1..MaxCalls |-> Idle]
  /\ watcher = NoWatcher

\* const submitted = ref(false) and the like: a cell the caller makes and
\* hands to the controller.  Cell 1 is the one the controller would make.
UserCell == 2

\* The cells the caller may supply: any of the four, at least one.
SuppliedCells ==
  {[form |-> f, errors |-> e, submitting |-> sg, submitted |-> sd] :
     f \in {0, UserCell}, e \in {0, UserCell}, sg \in {0, UserCell}, sd \in {0, UserCell}}
  \ {NoCells}

\* One controller with input, schema, callback and onErrors, built with
\* cells of the caller.
InitSupplied ==
  /\ cfg \in {<<Build(Config(FALSE, TRUE, TRUE, TRUE, TRUE, 1), 1, sup)>> : sup \in SuppliedCells}
  /\ submitting = <<FALSE, FALSE>>
  /\ submitted = <<FALSE, FALSE>>
  /\ errors = <<Undefined, Undefined>>
  /\ form = <<"none", "none">>
  /\ inputVal = Obj(<<>>)
  /\ schemaMin = 1
  /\ calls = [i \in 1..MaxCalls |-> Idle]
  /\ watcher = NoWatcher

----------------------------------------------------------------------------
\* The environment: the page mounts or edits the form element, the user
\* edits the input, the state behind the schema getter changes.
\*
\* The caller of submit is resumed as soon as the promise of its call has
\* settled, before anything else runs (Observe), so nothing else happens
\* while a call is settled and not yet observed.
\*
\* The input and the schema state are read in the first synchronous run of
\* an accepted call and nowhere else, so a change of them during an attempt
\* is the same as a change right after it: they change between attempts,
\* unless an effect of useParse watches them, which runs on every change.
\* The form element is read by a call that passes the guard and by no
\* other, and no call passes the guard while an attempt on the same flag is
\* in flight: its validity, too, changes between attempts.

NoneSettled == \A i \in CallIds : calls[i].pc # "done"
NoneInFlight == \A i \in CallIds : calls[i].pc = "idle"

SetForm(cell, f) ==
  /\ NoneInFlight
  /\ \E c \in Controllers : cfg[c].formCell = cell
  /\ form[cell] # f
  /\ form' = [form EXCEPT ![cell] = f]
  /\ UNCHANGED <<cfg, watcher, cells, inputVal, schemaMin, calls>>

SetInput(v) ==
  /\ NoneInFlight \/ (watcher.mode # "none" /\ NoneSettled)
  /\ watcher.mode # "none" \/ \E c \in Controllers : cfg[c].hasInput
  /\ inputVal # v
  /\ inputVal' = v
  /\ watcher' = OnChange(watcher, Schema(schemaMin), v)
  /\ UNCHANGED <<cfg, cells, form, schemaMin, calls>>

SetSchemaMin(m) ==
  /\ NoneInFlight \/ (watcher.mode # "none" /\ NoneSettled)
  /\ watcher.mode # "none" \/ \E c \in Controllers : cfg[c].hasSchema /\ ~cfg[c].anySchema
  /\ schemaMin # m
  /\ schemaMin' = m
  /\ watcher' = OnChange(watcher, Schema(m), inputVal)
  /\ UNCHANGED <<cfg, cells, form, inputVal, calls>>

\* The queued job of the effect runs.
WatcherFlush ==
  /\ NoneSettled
  /\ watcher.dirty
  /\ watcher' = Evaluate(watcher, Schema(schemaMin), inputVal)
  /\ UNCHANGED <<cfg, cells, env, calls>>

----------------------------------------------------------------------------
\* submit(...args), one action per synchronous run.

Fulfilled(v) == [t |-> "fulfilled", v |-> v]
Rejected(err) == [t |-> "rejected", err |-> err]

\* The guard left out.
GuardRejects_Never(k) == FALSE

\* if (submitting.value) return
GuardRejects(k) == submitting[k.submittingCell]

\* The reset of submitted left out.
ResetSubmitted_Forgotten(k) == submitted

\* submitted.value = false
ResetSubmitted(k) == [submitted EXCEPT ![k.submittedCell] = FALSE]

\* The reset of errors left out.
ResetErrors_Forgotten(k) == errors

\* errors.value = undefined
ResetErrors(k) == [errors EXCEPT ![k.errorsCell] = Undefined]

\* The form reported whatever its validity.
GateRejects_Always(k) == TRUE

\* The HTML5 validation left out.
GateRejects_Never(k) == FALSE

\* form.value && !form.value.checkValidity()
GateRejects(k) == form[k.formCell] = "invalid"

\* The flag not raised.
Raise_Forgotten(k) == submitting

\* submitting.value = true
Raise(k) == [submitting EXCEPT ![k.submittingCell] = TRUE]

\* The flag not lowered.
Lower_Forgotten(k) == submitting

\* finally { submitting.value = false }
Lower(k) == [submitting EXCEPT ![k.submittingCell] = FALSE]

\* The flag lowered on the normal way out of the try block only: after a
\* throw it stays up.
Finally_OnReturnOnly(k, state) == IF state = "rejected" THEN Raise(k) ELSE Lower(k)

\* try { ... } finally { submitting.value = false }: the flag is lowered on
\* every way out of the try block, a return or a throw.
Finally(k, state) == Lower(k)

\* No error recognised as a SubmitError.
IsSubmitError_Never(err) == FALSE

\* err instanceof SubmitError
IsSubmitError(err) == err.t = "SubmitError"

\* The catch handler without its throw err.
CatchResult_Swallow(r) ==
  IF r.t = "rejected" THEN Fulfilled(Undefined) ELSE r

\* What the promise of .catch(...) settles to, given what the promise of
\* .then(...) settled to: a SubmitError is swallowed, any other error rethrown.
CatchResult(r) ==
  IF r.t = "rejected" /\ IsSubmitError(r.err) THEN Fulfilled(Undefined) ELSE r

\* Only the messages without a path kept.
FailureReport_RootOnly(res) == [root |-> RootMessages(res.issues)]

\* errors.value = flatten(res.issues)
FailureReport(res) == flatten(res.issues)

\* errors.value not looked at after the callback.
HasErrors_Ignored(k) == FALSE

\* errors.value judged by what it holds: a report without messages counts
\* as no report.
HasErrors_ByContent(k) == errors[k.errorsCell] \notin {Undefined, EmptyReport}

\* if (errors.value)
HasErrors(k) == errors[k.errorsCell] # Undefined

\* When a call settles, its activation (arguments and locals) is gone: what
\* stays is the promise and the record of what the call did.
Settled(call, state, value) ==
  [call EXCEPT !.pc = "done", !.state = state, !.value = value,
               !.args = <<>>, !.input = Undefined, !.schema = Undefined, !.res = Undefined,
               !.thenResult = Undefined, !.chainResult = Undefined, !.returnValue = Undefined,
               !.cbArgs = <<>>,
               !.cbAssigned = <<>>]

\* return / throw out of the try block: the finally block runs and the
\* promise of the call settles.
Finished(call, state, value) ==
  Settled([call EXCEPT !.lowered = TRUE], state, value)

\* return before the try block.
Returned(call) ==
  Settled(call, "fulfilled", Undefined)

\* onErrors called a second time with the same report.
CallOnErrors_Twice(k, call, report) ==
  [call EXCEPT !.pc = "awaitOnErrors",
               !.onErrorsArgs = IF k.hasOnErrors THEN @ \o <<report, report>> ELSE @]

\* onErrors called and not awaited: the call goes on to its end at once.
CallOnErrors_NotAwaited(k, call, report) ==
  Finished([call EXCEPT !.onErrorsArgs = IF k.hasOnErrors THEN Append(@, report) ELSE @],
           "fulfilled", call.returnValue)

\* onErrors not called.
CallOnErrors_Skipped(k, call, report) ==
  [call EXCEPT !.pc = "awaitOnErrors"]

\* await options.onErrors?.(report): onErrors, when configured, is called
\* with the report, and the call waits for what it returned.
CallOnErrors(k, call, report) ==
  [call EXCEPT !.pc = "awaitOnErrors",
               !.onErrorsArgs = IF k.hasOnErrors THEN Append(@, report) ELSE @]

\* The input prepended when the attempt has a value to pass, worked out
\* anew from what the attempt read.
CallbackArgs_ByValue(k, call) ==
  IF call.input # Undefined \/ call.res # Undefined
  THEN <<IF call.res # Undefined THEN call.res.output ELSE call.input>> \o call.args
  ELSE call.args

\* The input prepended whatever the controller was built with.
CallbackArgs_AlwaysInput(k, call) ==
  <<IF call.res # Undefined THEN call.res.output ELSE call.input>> \o call.args

\* The input passed on trimmed, as the schema of the tests would give it.
CallbackArgs_Trimmed(k, call) ==
  IF k.hasInput \/ call.res # Undefined
  THEN <<IF call.res # Undefined THEN call.res.output
         ELSE IF call.input.t = "object" THEN Obj(toTrimmed(call.input.foo))
         ELSE call.input>> \o call.args
  ELSE call.args

\* The input never prepended.
CallbackArgs_NeverInput(k, call) == call.args

\* The arguments the callback is invoked with.
CallbackArgs(k, call) ==
  IF k.hasInput \/ call.res # Undefined
  THEN <<IF call.res # Undefined THEN call.res.output ELSE call.input>> \o call.args
  ELSE call.args

\* toValue(options.input): the value of the input at the moment.
DerefInput(k) == IF k.hasInput THEN inputVal ELSE Undefined

\* The schema evaluated once, when the controller was built.
DerefSchema_AtConstruction(k) ==
  IF ~k.hasSchema THEN Undefined
  ELSE IF k.anySchema THEN TransformSchema
  ELSE Schema(1)

\* schema(): the schema the getter gives at the moment.
DerefSchema(k) ==
  IF ~k.hasSchema THEN Undefined
  ELSE IF k.anySchema THEN TransformSchema
  ELSE Schema(schemaMin)

\* The sources read before the flag is raised.
FlagAtDeref_NotYetRaised(k) == submitting[k.submittingCell]

\* What a getter of the input or the schema finds in submitting.value: it
\* runs after submitting.value = true.
FlagAtDeref(k) == Raise(k)[k.submittingCell]

\* One source is dereferenced: the record of the call notes which, and the
\* flag its getter could see.
Dereferenced(k, call, source) ==
  [call EXCEPT !.derefs = Append(@, source), !.derefFlags = Append(@, FlagAtDeref(k))]

\* The record of a call takes the place of no call.
Put(cs, slot, call) == [cs EXCEPT ![slot] = call]

\* The call of submit up to its first await.
Submit(c, args, inputThrows, schemaThrows) ==
  LET k == cfg[c]
      slot == CHOOSE i \in CallIds :
                /\ calls[i].pc = "idle"
                /\ \A j \in 1..(i - 1) : calls[j].pc # "idle"
      call == [NewCall(c, args) EXCEPT !.hadErrors = errors[k.errorsCell] # Undefined,
                                       !.afterThrow = calls[slot].afterThrow /\ calls[slot].ctrl = c]
      checked == [call EXCEPT !.formChecks = IF form[k.formCell] = "none" THEN 0 ELSE 1]
      raised == [checked EXCEPT !.raised = TRUE]
      readInput == IF k.hasInput THEN Dereferenced(k, raised, "input") ELSE raised
      withInput == [readInput EXCEPT !.input = DerefInput(k)]
      readSchema == IF k.hasSchema THEN Dereferenced(k, withInput, "schema") ELSE withInput
      withSchema == [readSchema EXCEPT !.schema = DerefSchema(k)]
  IN /\ NoneSettled
     /\ \E i \in CallIds : calls[i].pc = "idle"
     /\ inputThrows => k.hasInput
     /\ schemaThrows => k.hasSchema /\ ~inputThrows
     /\ IF GuardRejects(k)
        THEN /\ ~inputThrows /\ ~schemaThrows
             /\ calls' = Put(calls, slot, Returned(call))
             /\ UNCHANGED <<submitting, submitted, errors>>
        ELSE /\ submitted' = ResetSubmitted(k)
             /\ errors' = ResetErrors(k)
             /\ IF GateRejects(k)
                THEN /\ ~inputThrows /\ ~schemaThrows
                     /\ calls' = Put(calls, slot, Returned([checked EXCEPT !.formReports = 1,
                                                                        !.hadSubmitted = submitted[k.submittedCell]]))
                     /\ UNCHANGED submitting
                ELSE CASE inputThrows ->
                            /\ calls' = Put(calls, slot, Finished(readInput, "rejected", GetterError))
                            /\ submitting' = Finally(k, "rejected")
                       [] schemaThrows ->
                            /\ calls' = Put(calls, slot, Finished(readSchema, "rejected", GetterError))
                            /\ submitting' = Finally(k, "rejected")
                       [] OTHER ->
                            /\ calls' = Put(calls, slot, [withSchema EXCEPT !.pc =
                                                         IF k.hasSchema THEN "validating" ELSE "thenPending"])
                            /\ submitting' = Raise(k)
     /\ UNCHANGED <<cfg, watcher, env>>

\* await safeParseAsync(schema, input) settles.
ValidationSettles(i, engineThrows) ==
  LET call == calls[i]
      k == cfg[call.ctrl]
      res == safeParse(call.schema, call.input)
      parsed == [call EXCEPT !.res = res, !.parsed = @ + 1]
  IN /\ NoneSettled
     /\ call.pc = "validating"
     /\ IF engineThrows
        THEN /\ calls' = [calls EXCEPT ![i] = Finished(call, "rejected", EngineError)]
             /\ submitting' = Finally(k, "rejected")
             /\ UNCHANGED errors
        ELSE IF ~res.success
        THEN /\ errors' = [errors EXCEPT ![k.errorsCell] = FailureReport(res)]
             /\ calls' = [calls EXCEPT ![i] = CallOnErrors(k, parsed, errors'[k.errorsCell])]
             /\ UNCHANGED submitting
        ELSE /\ calls' = [calls EXCEPT ![i] = [parsed EXCEPT !.pc = "thenPending"]]
             /\ UNCHANGED <<submitting, errors>>
     /\ UNCHANGED <<cfg, watcher, submitted, env>>

\* The missing callback called without the optional chaining: a TypeError.
NoCallback_Throws == Rejected(GenericError)

\* options.submit?.(...) without a callback: undefined.
NoCallback == Fulfilled(Undefined)

\* The reaction of Promise.resolve().then(...): the callback is invoked.
CallbackInvoke(i) ==
  LET call == calls[i]
      k == cfg[call.ctrl]
  IN /\ NoneSettled
     /\ call.pc = "thenPending"
     /\ calls' = [calls EXCEPT ![i] =
          IF k.hasSubmit
          THEN [call EXCEPT !.pc = "inCallback", !.cbCalls = @ + 1, !.cbArgs = CallbackArgs(k, call)]
          ELSE [call EXCEPT !.pc = "thenSettled", !.thenResult = NoCallback]]
     /\ UNCHANGED <<cfg, watcher, cells, env>>

\* The caller of submit is resumed with the outcome of the call: the call
\* is over.  What stays behind is whether it was an attempt that threw, and
\* of which controller.
Observed(call) ==
  IF call.raised /\ call.state = "rejected"
  THEN [Idle EXCEPT !.ctrl = call.ctrl, !.afterThrow = TRUE]
  ELSE Idle

Observe(i) ==
  /\ calls[i].pc = "done"
  /\ calls' = [calls EXCEPT ![i] = Observed(calls[i])]
  /\ UNCHANGED <<cfg, watcher, cells, env>>

\* The callback assigns errors.value.
CallbackAssign(i, report) ==
  LET call == calls[i]
      k == cfg[call.ctrl]
  IN /\ NoneSettled
     /\ call.pc = "inCallback"
     /\ call.cbAssigned = <<>>
     /\ errors' = [errors EXCEPT ![k.errorsCell] = report]
     /\ calls' = [calls EXCEPT ![i] = [call EXCEPT !.cbAssigned = <<report>>]]
     /\ UNCHANGED <<cfg, watcher, submitting, submitted, env>>

\* The callback returns (or the promise it returned fulfils).
CallbackReturns(i, v) ==
  LET call == calls[i]
  IN /\ NoneSettled
     /\ call.pc = "inCallback"
     /\ calls' = [calls EXCEPT ![i] = [call EXCEPT !.pc = "thenSettled", !.thenResult = Fulfilled(v)]]
     /\ UNCHANGED <<cfg, watcher, cells, env>>

\* The callback throws (or the promise it returned rejects).
CallbackThrows(i, err) ==
  LET call == calls[i]
  IN /\ NoneSettled
     /\ call.pc = "inCallback"
     /\ calls' = [calls EXCEPT ![i] = [call EXCEPT !.pc = "thenSettled", !.thenResult = Rejected(err)]]
     /\ UNCHANGED <<cfg, watcher, cells, env>>

\* The reaction of .catch(...).
CatchHandler(i) ==
  LET call == calls[i]
      k == cfg[call.ctrl]
      r == call.thenResult
  IN /\ NoneSettled
     /\ call.pc = "thenSettled"
     /\ errors' = IF r.t = "rejected" /\ IsSubmitError(r.err)
                  THEN [errors EXCEPT ![k.errorsCell] = r.err.errors]
                  ELSE errors
     /\ calls' = [calls EXCEPT ![i] = [call EXCEPT !.pc = "chainSettled", !.chainResult = CatchResult(r)]]
     /\ UNCHANGED <<cfg, watcher, submitting, submitted, env>>

\* The value awaited from the chain lost.
AwaitedValue_Dropped(r) == Undefined

\* const returnValue = await <chain>
AwaitedValue(r) == r.v

\* The await of the promise chain resumes.
Resume(i) ==
  LET call == calls[i]
      k == cfg[call.ctrl]
      r == call.chainResult
  IN /\ NoneSettled
     /\ call.pc = "chainSettled"
     /\ IF r.t = "rejected"
        THEN /\ calls' = [calls EXCEPT ![i] = Finished(call, "rejected", r.err)]
             /\ submitting' = Finally(k, "rejected")
             /\ UNCHANGED submitted
        ELSE IF HasErrors(k)
        THEN /\ calls' = [calls EXCEPT ![i] =
                            CallOnErrors(k, [call EXCEPT !.returnValue = AwaitedValue(r)], errors[k.errorsCell])]
             /\ UNCHANGED <<submitting, submitted>>
        ELSE /\ submitted' = [submitted EXCEPT ![k.submittedCell] = TRUE]
             /\ calls' = [calls EXCEPT ![i] = Finished(call, "fulfilled", AwaitedValue(r))]
             /\ submitting' = Finally(k, "fulfilled")
     /\ UNCHANGED <<cfg, watcher, errors, env>>

\* await options.onErrors?.(errors.value) settles.
\* The error of onErrors caught and dropped, the attempt ending as if
\* onErrors had returned.
OnErrorsResult_Caught(call, throws) ==
  [state |-> "fulfilled", value |-> call.returnValue]

\* What the await of onErrors gives the attempt: no handler stands between
\* it and the finally block, so an error of onErrors ends the attempt with
\* that error, and otherwise the attempt returns its return value.
OnErrorsResult(call, throws) ==
  IF throws THEN [state |-> "rejected", value |-> OnErrorsError]
  ELSE [state |-> "fulfilled", value |-> call.returnValue]

OnErrorsSettles(i, throws) ==
  LET call == calls[i]
      k == cfg[call.ctrl]
      r == OnErrorsResult(call, throws)
  IN /\ NoneSettled
     /\ call.pc = "awaitOnErrors"
     /\ throws => k.hasOnErrors
     /\ calls' = [calls EXCEPT ![i] =
          Finished([call EXCEPT !.onErrorsThrew = throws], r.state, r.value)]
     /\ submitting' = Finally(k, r.state)
     /\ UNCHANGED <<cfg, watcher, submitted, errors, env>>

CallbackErrors == {GenericError} \cup {SubmitError(r) : r \in UserReports}

Next ==
  \/ \E c \in Controllers, args \in ArgLists, it \in BOOLEAN, st \in BOOLEAN : Submit(c, args, it, st)
  \/ \E i \in CallIds, t \in BOOLEAN : ValidationSettles(i, t)
  \/ \E i \in CallIds : CallbackInvoke(i)
  \/ \E i \in CallIds, r \in UserReports \cup {Undefined} : CallbackAssign(i, r)
  \/ \E i \in CallIds, v \in ReturnValues : CallbackReturns(i, v)
  \/ \E i \in CallIds, err \in CallbackErrors : CallbackThrows(i, err)
  \/ \E i \in CallIds : CatchHandler(i)
  \/ \E i \in CallIds : Resume(i)
  \/ \E i \in CallIds, t \in BOOLEAN : OnErrorsSettles(i, t)
  \/ \E i \in CallIds : Observe(i)
  \/ \E cell \in DOMAIN form, f \in {"none", "valid", "invalid"} : SetForm(cell, f)
  \/ \E v \in InputValues : SetInput(v)
  \/ \E m \in 0..MaxLen : SetSchemaMin(m)

Spec == Init /\ [][Next]_vars

\* Two controllers that share the submitting flag.
SpecShared == InitShared /\ [][Next]_vars

\* One controller on cells of the caller.
SpecSupplied == InitSupplied /\ [][Next]_vars

\* Two controllers on one errors cell, one submitted cell and one form
\* element, each with a submitting flag of its own: the first validates an
\* input and has no callback, the second has a callback and onErrors.
SharedReportPairs ==
  {<<Build(Config(FALSE, TRUE, TRUE, FALSE, FALSE, 1), 1, NoCells),
     Build(Config(FALSE, FALSE, FALSE, TRUE, TRUE, 2), 2,
           [NoCells EXCEPT !.errors = SharedCell, !.submitted = SharedCell,
                           !.form = SharedCell])>>}

InitSharedReport ==
  /\ cfg \in SharedReportPairs
  /\ submitting = <<FALSE, FALSE>>
  /\ submitted = <<FALSE, FALSE>>
  /\ errors = <<Undefined, Undefined>>
  /\ form = <<"none", "none">>
  /\ inputVal = Obj(<<>>)
  /\ schemaMin = 1
  /\ calls = [i \in 1..MaxCalls |-> Idle]
  /\ watcher = NoWatcher

\* Two controllers that share errors and submitted and not the flag.
SpecSharedReport == InitSharedReport /\ [][Next]_vars

\* One step of call i: a promise the call waits for settles, or a reaction
\* of its chain runs.
StepOf(i) ==
  \/ \E t \in BOOLEAN : ValidationSettles(i, t)
  \/ CallbackInvoke(i)
  \/ \E v \in ReturnValues : CallbackReturns(i, v)
  \/ \E err \in CallbackErrors : CallbackThrows(i, err)
  \/ CatchHandler(i)
  \/ Resume(i)
  \/ \E t \in BOOLEAN : OnErrorsSettles(i, t)

\* The validation, the callback and onErrors each settle in the end, the
\* reactions of settled promises are run, and the caller of a settled call
\* is resumed.
Progress ==
  \A i \in 1..MaxCalls : SF_vars(StepOf(i)) /\ WF_vars(Observe(i))

\* One controller with input, schema, callback and onErrors.
InitLive ==
  /\ cfg = <<Config(FALSE, TRUE, TRUE, TRUE, TRUE, 1)>>
  /\ submitting = <<FALSE>>
  /\ submitted = <<FALSE>>
  /\ errors = <<Undefined>>
  /\ form = <<"none">>
  /\ inputVal = Obj(<<>>)
  /\ schemaMin = 1
  /\ calls = [i \in 1..MaxCalls |-> Idle]
  /\ watcher = NoWatcher

\* The controller when everything it waits for settles.
SpecLive == InitLive /\ [][Next]_vars /\ Progress

\* useParse on an input and a schema of its own, with flush "sync" or with
\* the default flush, next to a controller that validates nothing of it.
InitParse ==
  /\ cfg = <<[Config(FALSE, FALSE, TRUE, TRUE, FALSE, 1) EXCEPT !.anySchema = TRUE]>>
  /\ submitting = <<FALSE>>
  /\ submitted = <<FALSE>>
  /\ errors = <<Undefined>>
  /\ form = <<"none">>
  /\ inputVal = Obj(<<>>)
  /\ schemaMin = 1
  /\ calls = [i \in 1..MaxCalls |-> Idle]
  /\ watcher \in {NewWatcher(mode, Schema(1), Obj(<<>>)) : mode \in {"sync", "pre"}}

NextParse ==
  \/ Next
  \/ WatcherFlush

SpecParse == InitParse /\ [][NextParse]_vars

TypeOK ==
  /\ \A i \in CallIds : calls[i].pc \in {"validating", "thenPending", "inCallback", "thenSettled",
                                         "chainSettled", "awaitOnErrors", "done", "idle"}
  /\ \A c \in DOMAIN submitting : submitting[c] \in BOOLEAN

----------------------------------------------------------------------------
\* Vocabulary of the properties.

\* The cells of the controller of a call.
SubmittingOf(call) == submitting[cfg[call.ctrl].submittingCell]
SubmittedOf(call) == submitted[cfg[call.ctrl].submittedCell]
ErrorsOf(call) == errors[cfg[call.ctrl].errorsCell]

\* The same cells after the step.
SubmittingAfter(call) == submitting'[cfg[call.ctrl].submittingCell]
SubmittedAfter(call) == submitted'[cfg[call.ctrl].submittedCell]
ErrorsAfter(call) == errors'[cfg[call.ctrl].errorsCell]

\* Call i is made in this step.
Made(i) == calls[i].pc = "idle" /\ calls'[i].pc # "idle"

\* Call i settles in this step.
Settles(i) ==
  /\ i \in DOMAIN calls'
  /\ calls'[i].pc = "done"
  /\ i \in DOMAIN calls => calls[i].pc # "done"

\* A settled call that did nothing at all.
DidNothing(call) ==
  /\ call.pc = "done" /\ call.state = "fulfilled" /\ call.value = Undefined
  /\ ~call.raised /\ ~call.lowered
  /\ call.formChecks = 0 /\ call.formReports = 0
  /\ call.derefs = <<>> /\ call.parsed = 0
  /\ call.cbCalls = 0 /\ call.onErrorsArgs = <<>>

\* A settled call never does anything more: all that happens to it is that
\* its caller is resumed.
SettledForGood ==
  \A i \in DOMAIN calls :
    calls[i].pc = "done" => calls'[i] \in {calls[i], Observed(calls[i])}

----------------------------------------------------------------------------
\* C1: a call of submit made while submitting is true resolves to undefined
\* and changes nothing: the three cells keep their values, the form is not
\* checked, input and schema are not dereferenced, and neither the callback
\* nor onErrors is invoked, in that step or in any later one.
C1_GuardedCallIsNoop ==
  [][/\ \A i \in DOMAIN calls' :
          Made(i) /\ SubmittingOf(calls'[i])
          => /\ DidNothing(calls'[i])
             /\ submitting' = submitting /\ submitted' = submitted /\ errors' = errors
     /\ SettledForGood]_vars

\* A call was turned away by the guard while an attempt that has set errors
\* is in its callback.
C1_Witness ==
  \E i, j \in DOMAIN calls :
    /\ i < j
    /\ calls[i].pc = "inCallback" /\ calls[i].cbAssigned # <<>> /\ ErrorsOf(calls[i]) # Undefined
    /\ DidNothing(calls[j])

----------------------------------------------------------------------------
\* An attempt between the raising and the lowering of its flag.
Active(call) == call.raised /\ call.pc \notin {"done", "idle"}

\* C2: at most one attempt of a controller is between raising and lowering
\* submitting at any time, so the callback never runs in two attempts at
\* once; a call that is past the guard has raised the flag by the time it
\* first suspends.
C2_OneActiveAttempt ==
  /\ \A i, j \in DOMAIN calls :
       (i # j /\ cfg[calls[i].ctrl].submittingCell = cfg[calls[j].ctrl].submittingCell)
       => ~(Active(calls[i]) /\ Active(calls[j]))
  /\ \A i, j \in DOMAIN calls :
       i # j => ~(calls[i].pc = "inCallback" /\ calls[j].pc = "inCallback")
  /\ \A i \in DOMAIN calls :
       calls[i].pc \notin {"done", "idle"} => calls[i].raised /\ SubmittingOf(calls[i])

\* Two calls were made back to back: the first has not run past its first
\* await when the second has already been turned away.
C2_Witness ==
  /\ calls[1].pc = "thenPending" /\ calls[1].parsed = 0 /\ cfg[calls[1].ctrl].hasSubmit
  /\ calls[2].pc = "done" /\ ~calls[2].raised

\* C3: when a call that raised submitting settles, submitting is false, on
\* every exit path.
C3_LoweredWhenSettled ==
  [][\A i \in DOMAIN calls' :
       Settles(i) /\ calls'[i].raised => ~SubmittingAfter(calls'[i])]_vars

\* An attempt that found the report of an earlier one was ended by the
\* error its onErrors threw.
C3_Witness ==
  \E j \in DOMAIN calls :
    /\ calls[j].hadErrors
    /\ calls[j].pc = "done" /\ calls[j].raised /\ calls[j].state = "rejected"
    /\ calls[j].value = OnErrorsError /\ calls[j].onErrorsArgs # <<>>
    /\ ~SubmittingOf(calls[j])

\* C4: at the moment an attempt completes, submitted and a present errors
\* report exclude each other.
C4_SubmittedExcludesErrors ==
  [][\A i \in DOMAIN calls' :
       Settles(i) => ~(SubmittedAfter(calls'[i]) /\ ErrorsAfter(calls'[i]) # Undefined)]_vars

\* An attempt whose callback ran ended with errors present and submitted
\* false.
C4_Witness ==
  \E i \in DOMAIN calls :
    /\ calls[i].pc = "done" /\ calls[i].cbCalls = 1 /\ calls[i].state = "fulfilled"
    /\ calls[i].onErrorsArgs # <<>>
    /\ ~SubmittedOf(calls[i]) /\ ErrorsOf(calls[i]) # Undefined

\* C5: errors is absent when the validation of an accepted attempt begins
\* and when its callback begins, whatever an earlier attempt left there.
C5_NoStaleErrors ==
  \A i \in DOMAIN calls :
    (\/ calls[i].pc \in {"validating", "thenPending"}
     \/ calls[i].pc = "inCallback" /\ calls[i].cbAssigned = <<>>)
    => ErrorsOf(calls[i]) = Undefined

\* An earlier attempt left a report, and the callback of the next attempt
\* has just begun.
C5_Witness ==
  \E i \in DOMAIN calls :
    calls[i].pc = "inCallback" /\ calls[i].cbAssigned = <<>> /\ calls[i].hadErrors

\* C6: a call that finds a form that reports itself invalid triggers the
\* report of the form and resolves to undefined without raising submitting,
\* dereferencing input or schema, validating, or invoking the callback.
C6_InvalidFormStopsAttempt ==
  [][/\ \A i \in DOMAIN calls' :
          (/\ Made(i)
           /\ ~SubmittingOf(calls'[i])
           /\ form[cfg[calls'[i].ctrl].formCell] = "invalid")
          => /\ calls'[i].formChecks = 1 /\ calls'[i].formReports = 1
             /\ calls'[i].pc = "done" /\ calls'[i].state = "fulfilled"
             /\ calls'[i].value = Undefined
             /\ ~calls'[i].raised /\ submitting' = submitting
             /\ calls'[i].derefs = <<>> /\ calls'[i].parsed = 0
             /\ calls'[i].cbCalls = 0 /\ calls'[i].onErrorsArgs = <<>>
     /\ SettledForGood]_vars

\* A controller with an input, a schema, a callback and onErrors had a call
\* stopped by the form.
C6_Witness ==
  \E i \in DOMAIN calls :
    /\ calls[i].formReports = 1 /\ calls[i].pc = "done"
    /\ cfg[calls[i].ctrl].hasInput /\ cfg[calls[i].ctrl].hasSchema
    /\ cfg[calls[i].ctrl].hasSubmit /\ cfg[calls[i].ctrl].hasOnErrors

----------------------------------------------------------------------------
\* What an attempt in flight has been through.
ValidationFailed(call) == call.res # Undefined /\ ~call.res.success
CallbackThrew(call) == call.thenResult # Undefined /\ call.thenResult.t = "rejected"
ThrewSubmitError(call) == CallbackThrew(call) /\ call.thenResult.err.t = "SubmitError"
ThrewOther(call) == CallbackThrew(call) /\ call.thenResult.err.t # "SubmitError"

\* The call resolves to undefined.
ResolvesUndefined(call) == call.pc = "done" /\ call.state = "fulfilled" /\ call.value = Undefined

\* The call rejects with the error onErrors threw, after onErrors was called
\* with the report.
RejectsFromOnErrors(call, report) ==
  /\ cfg[call.ctrl].hasOnErrors /\ call.onErrorsArgs = <<report>>
  /\ call.pc = "done" /\ call.state = "rejected" /\ call.value = OnErrorsError

\* C7 as stated: when the validation of an attempt fails, the callback is
\* not invoked in that attempt, errors equals flatten(issues), submitted is
\* false, and submit resolves to undefined.
C7_Original ==
  [][\A i \in DOMAIN calls :
       Settles(i) /\ ValidationFailed(calls[i])
       => /\ calls'[i].cbCalls = 0
          /\ ErrorsAfter(calls[i]) = flatten(calls[i].res.issues)
          /\ ~SubmittedAfter(calls[i])
          /\ ResolvesUndefined(calls'[i])]_vars

\* C7 as amended: when the validation of an attempt fails, the callback is
\* not invoked in that attempt, errors equals flatten(issues), submitted is
\* false, and submit resolves to undefined, unless onErrors throws or
\* rejects: then submit rejects with the error of onErrors.
C7_ValidationFailure ==
  [][\A i \in DOMAIN calls :
       Settles(i) /\ ValidationFailed(calls[i])
       => /\ calls'[i].cbCalls = 0
          /\ ErrorsAfter(calls[i]) = flatten(calls[i].res.issues)
          /\ ~SubmittedAfter(calls[i])
          /\ \/ ResolvesUndefined(calls'[i])
             \/ RejectsFromOnErrors(calls'[i], flatten(calls[i].res.issues))]_vars

\* The validation of an attempt with a callback and onErrors has failed
\* with a nested issue, and the attempt waits for onErrors.
C7_Witness ==
  \E i \in DOMAIN calls :
    /\ calls[i].pc = "awaitOnErrors" /\ ValidationFailed(calls[i])
    /\ calls[i].res.issues[1].path # <<>>
    /\ cfg[calls[i].ctrl].hasSubmit /\ cfg[calls[i].ctrl].hasOnErrors

\* C8 as stated: when the callback throws a SubmitError carrying report R,
\* submit resolves to undefined without rejecting, errors equals R,
\* submitted is false, and onErrors (if configured) is invoked with R.
C8_Original ==
  [][\A i \in DOMAIN calls :
       Settles(i) /\ ThrewSubmitError(calls[i])
       => LET R == calls[i].thenResult.err.errors
          IN /\ ResolvesUndefined(calls'[i])
             /\ ErrorsAfter(calls[i]) = R
             /\ ~SubmittedAfter(calls[i])
             /\ cfg[calls[i].ctrl].hasOnErrors => calls'[i].onErrorsArgs = <<R>>]_vars

\* C8 as amended: when the callback throws a SubmitError carrying report R,
\* errors equals R, submitted is false, onErrors (if configured) is invoked
\* with R, and submit resolves to undefined, unless onErrors throws or
\* rejects: then submit rejects with the error of onErrors.
C8_SubmitErrorCaptured ==
  [][\A i \in DOMAIN calls :
       Settles(i) /\ ThrewSubmitError(calls[i])
       => LET R == calls[i].thenResult.err.errors
          IN /\ ResolvesUndefined(calls'[i]) \/ RejectsFromOnErrors(calls'[i], R)
             /\ ErrorsAfter(calls[i]) = R
             /\ ~SubmittedAfter(calls[i])
             /\ cfg[calls[i].ctrl].hasOnErrors => calls'[i].onErrorsArgs = <<R>>]_vars

\* The callback assigned one report and threw a SubmitError carrying
\* another, and the attempt waits for onErrors.
C8_Witness ==
  \E i \in DOMAIN calls :
    /\ calls[i].pc = "awaitOnErrors" /\ ThrewSubmitError(calls[i])
    /\ calls[i].cbAssigned = <<ManualReport>>
    /\ calls[i].thenResult.err.errors = EmptyReport
    /\ calls[i].onErrorsArgs = <<EmptyReport>>

\* C9: when the callback throws an error that is not a SubmitError, submit
\* rejects with that same error, onErrors is not invoked, the controller
\* does not write errors, and submitted stays false.
C9_OtherErrorPropagates ==
  [][\A i \in DOMAIN calls :
       ThrewOther(calls[i])
       => /\ errors' = errors
          /\ ~SubmittedAfter(calls[i])
          /\ calls'[i].onErrorsArgs = <<>>
          /\ calls'[i].pc \in {"thenSettled", "chainSettled", "done"}
          /\ calls'[i].pc = "done"
             => calls'[i].state = "rejected" /\ calls'[i].value = calls[i].thenResult.err]_vars

\* An attempt of a controller with onErrors was rejected with the error its
\* callback threw, and errors is absent.
C9_Witness ==
  \E i \in DOMAIN calls :
    /\ calls[i].pc = "done" /\ calls[i].cbCalls = 1
    /\ calls[i].state = "rejected" /\ calls[i].value = GenericError
    /\ cfg[calls[i].ctrl].hasOnErrors /\ calls[i].onErrorsArgs = <<>>
    /\ ErrorsOf(calls[i]) = Undefined /\ ~SubmittedOf(calls[i])

\* C10 as stated: every attempt that ends with errors present invokes
\* onErrors (when configured) with the report held by the errors cell.
C10_Original ==
  [][\A i \in DOMAIN calls' :
       (/\ Settles(i) /\ calls'[i].raised
        /\ cfg[calls'[i].ctrl].hasOnErrors
        /\ ErrorsAfter(calls'[i]) # Undefined)
       => calls'[i].onErrorsArgs = <<ErrorsAfter(calls'[i])>>]_vars

\* C10 as amended: every attempt that ends with errors present invokes
\* onErrors (when configured) with the report held by the errors cell,
\* whether the report came from the validation, from an assignment in the
\* callback or from a SubmitError, except an attempt whose callback threw
\* an error that is not a SubmitError.
C10_OnErrorsGetsReport ==
  [][\A i \in DOMAIN calls' :
       (/\ Settles(i) /\ calls'[i].raised
        /\ cfg[calls'[i].ctrl].hasOnErrors
        /\ ErrorsAfter(calls'[i]) # Undefined
        /\ ~(i \in DOMAIN calls /\ ThrewOther(calls[i])))
       => calls'[i].onErrorsArgs = <<ErrorsAfter(calls'[i])>>]_vars

\* An attempt whose validation passed ended with the report its callback
\* assigned, after onErrors was called with it.
C10_Witness ==
  \E i \in DOMAIN calls :
    /\ calls[i].pc = "done" /\ calls[i].parsed = 1 /\ calls[i].cbCalls = 1
    /\ calls[i].state = "fulfilled"
    /\ calls[i].onErrorsArgs = <<ManualReport>> /\ ErrorsOf(calls[i]) = ManualReport

----------------------------------------------------------------------------
\* The callback assigned a report and then returned without throwing.
AssignedAndReturned(call) ==
  /\ call.cbAssigned # <<>> /\ call.cbAssigned[1] # Undefined
  /\ call.thenResult # Undefined /\ call.thenResult.t = "fulfilled"

\* C11 as stated: when the callback assigns a report to errors without
\* throwing and then returns V, the attempt ends with submitted false and
\* onErrors invoked, and submit resolves to V.
C11_Original ==
  [][\A i \in DOMAIN calls :
       Settles(i) /\ AssignedAndReturned(calls[i])
       => /\ ~SubmittedAfter(calls[i])
          /\ ErrorsAfter(calls[i]) = calls[i].cbAssigned[1]
          /\ cfg[calls[i].ctrl].hasOnErrors => calls'[i].onErrorsArgs = calls[i].cbAssigned
          /\ calls'[i].state = "fulfilled" /\ calls'[i].value = calls[i].thenResult.v]_vars

\* C11 as amended: when the callback assigns a report to errors without
\* throwing and then returns V, the attempt ends with submitted false and
\* onErrors invoked with the report, and submit resolves to V, unless
\* onErrors throws or rejects: then submit rejects with the error of
\* onErrors.
C11_ReportAndReturnValue ==
  [][\A i \in DOMAIN calls :
       Settles(i) /\ AssignedAndReturned(calls[i])
       => /\ ~SubmittedAfter(calls[i])
          /\ ErrorsAfter(calls[i]) = calls[i].cbAssigned[1]
          /\ cfg[calls[i].ctrl].hasOnErrors => calls'[i].onErrorsArgs = calls[i].cbAssigned
          /\ \/ calls'[i].state = "fulfilled" /\ calls'[i].value = calls[i].thenResult.v
             \/ RejectsFromOnErrors(calls'[i], calls[i].cbAssigned[1])]_vars

\* The callback assigned a report and returned 123; onErrors was called with
\* the report and submit resolved to 123 with submitted false.
C11_Witness ==
  \E i \in DOMAIN calls :
    /\ calls[i].pc = "done" /\ calls[i].cbCalls = 1
    /\ calls[i].onErrorsArgs = <<ManualReport>>
    /\ calls[i].state = "fulfilled" /\ calls[i].value = Num(123)
    /\ ErrorsOf(calls[i]) = ManualReport /\ ~SubmittedOf(calls[i])

----------------------------------------------------------------------------
\* The callback of the attempt has been invoked and the attempt is not over.
Invoked(call) ==
  call.cbCalls = 1 /\ call.pc \in {"inCallback", "thenSettled", "chainSettled", "awaitOnErrors"}

C13_InputThenArgs ==
  \A i \in DOMAIN calls :
    LET call == calls[i]
        k == cfg[call.ctrl]
    IN (Invoked(call) /\ (k.hasInput \/ k.hasSchema))
       => /\ call.cbArgs = <<IF k.hasSchema THEN safeParse(call.schema, call.input).output
                              ELSE call.input>> \o call.args
          /\ call.input = IF k.hasInput THEN inputVal ELSE Undefined

\* The callback of a controller with a schema and no input was invoked with
\* the output of the schema before the two arguments of submit.
C13_Witness ==
  \E i \in DOMAIN calls :
    /\ calls[i].pc = "inCallback"
    /\ ~cfg[calls[i].ctrl].hasInput /\ cfg[calls[i].ctrl].hasSchema
    /\ calls[i].input = Undefined
    /\ calls[i].cbArgs = <<Num(123), Str("foo"), Str("bar")>>

----------------------------------------------------------------------------
\* C14: without a schema no validation is run, and the value passed to the
\* callback is exactly the value the input was dereferenced to in that
\* attempt.
C14_InputPassedThrough ==
  \A i \in DOMAIN calls :
    LET call == calls[i]
        k == cfg[call.ctrl]
    IN ~k.hasSchema
       => /\ call.parsed = 0 /\ call.res = Undefined /\ call.pc # "validating"
          /\ "schema" \notin {call.derefs[n] : n \in DOMAIN call.derefs}
          /\ (Invoked(call) /\ k.hasInput)
             => /\ call.derefs = <<"input">>
                /\ call.input = inputVal
                /\ call.cbArgs = <<inputVal>> \o call.args

\* Without a schema the callback was invoked with an input that the schema
\* of the tests would have trimmed.
C14_Witness ==
  \E i \in DOMAIN calls :
    /\ calls[i].pc = "inCallback"
    /\ ~cfg[calls[i].ctrl].hasSchema /\ cfg[calls[i].ctrl].hasInput
    /\ calls[i].parsed = 0
    /\ calls[i].input = Obj(<<SP>>)
    /\ calls[i].cbArgs[1] = Obj(<<SP>>)

----------------------------------------------------------------------------
\* What C15 says of a settling attempt of a controller without a callback,
\* but for the way submit settles after a failed validation.
NoCallbackOutcome(i) ==
  LET call == calls[i]
      k == cfg[call.ctrl]
  IN /\ calls'[i].cbCalls = 0
     /\ k.hasSchema => calls'[i].parsed = 1
     /\ ~k.hasSchema => calls'[i].parsed = 0
     /\ call.pc = "chainSettled"
        => /\ ErrorsAfter(call) = Undefined /\ SubmittedAfter(call)
           /\ ResolvesUndefined(calls'[i])
     /\ call.pc = "awaitOnErrors"
        => /\ ValidationFailed(call)
           /\ ErrorsAfter(call) = flatten(call.res.issues) /\ ~SubmittedAfter(call)

\* C15 as stated: without a callback an attempt still runs the validation
\* if a schema is configured, ends with errors set and submitted false on
\* failure or with errors absent and submitted true on success, and
\* resolves to undefined in both cases.
C15_Original ==
  [][\A i \in DOMAIN calls :
       (Settles(i) /\ ~cfg[calls[i].ctrl].hasSubmit /\ calls[i].pc \in {"chainSettled", "awaitOnErrors"})
       => /\ NoCallbackOutcome(i)
          /\ ResolvesUndefined(calls'[i])]_vars

\* C15 as amended: the same, but after a failed validation submit resolves
\* to undefined unless onErrors throws or rejects: then submit rejects with
\* the error of onErrors.
C15_WithoutCallback ==
  [][\A i \in DOMAIN calls :
       (Settles(i) /\ ~cfg[calls[i].ctrl].hasSubmit /\ calls[i].pc \in {"chainSettled", "awaitOnErrors"})
       => /\ NoCallbackOutcome(i)
          /\ \/ ResolvesUndefined(calls'[i])
             \/ /\ calls[i].pc = "awaitOnErrors"
                /\ RejectsFromOnErrors(calls'[i], flatten(calls[i].res.issues))]_vars

\* A controller with a schema and no callback: an attempt found the report
\* of a failed validation in errors and ended submitted, errors absent.
C15_Witness ==
  \E i \in DOMAIN calls :
    /\ ~cfg[calls[i].ctrl].hasSubmit /\ cfg[calls[i].ctrl].hasSchema
    /\ ~cfg[calls[i].ctrl].anySchema
    /\ calls[i].pc = "done" /\ calls[i].hadErrors /\ calls[i].parsed = 1
    /\ calls[i].state = "fulfilled" /\ calls[i].value = Undefined
    /\ SubmittedOf(calls[i]) /\ ErrorsOf(calls[i]) = Undefined

----------------------------------------------------------------------------
\* The sources a controller has, in the order the code reads them.
Sources(k) ==
  (IF k.hasInput THEN <<"input">> ELSE <<>>) \o (IF k.hasSchema THEN <<"schema">> ELSE <<>>)

\* The getters of call i ran with the flag raised, before any validation,
\* and gave the attempt the values of the moment.
DereferencedAfresh(i) ==
  LET call == calls'[i]
      k == cfg[call.ctrl]
  IN /\ \A n \in DOMAIN call.derefFlags : call.derefFlags[n]
     /\ Len(call.derefFlags) = Len(call.derefs)
     /\ call.parsed = 0
     /\ call.pc # "done"
        => /\ call.input = IF k.hasInput THEN inputVal ELSE Undefined
           /\ call.schema = IF ~k.hasSchema THEN Undefined
                            ELSE IF k.anySchema THEN TransformSchema
                            ELSE Schema(schemaMin)

\* Nothing is dereferenced after the first synchronous run of a call.
NoLaterDeref ==
  \A i \in DOMAIN calls :
    (calls[i].pc # "idle" /\ calls'[i].pc # "idle") => calls'[i].derefs = calls[i].derefs

\* C16 as stated: every attempt that passes the guard and the form gate
\* dereferences the input and then the schema exactly once each, after
\* raising submitting and before the validation, so that it sees the input
\* and the schema state of the moment, not those of the construction.
C16_Original ==
  [][/\ \A i \in DOMAIN calls' :
          Made(i) /\ calls'[i].raised
          => /\ calls'[i].derefs = Sources(cfg[calls'[i].ctrl])
             /\ DereferencedAfresh(i)
     /\ NoLaterDeref]_vars

\* C16 as amended: the same, except that an attempt whose input getter
\* throws does not dereference the schema at all.
C16_DereferencedPerAttempt ==
  [][/\ \A i \in DOMAIN calls' :
          Made(i) /\ calls'[i].raised
          => /\ \/ calls'[i].derefs = Sources(cfg[calls'[i].ctrl])
                \/ /\ calls'[i].derefs = <<"input">>
                   /\ calls'[i].pc = "done" /\ calls'[i].state = "rejected"
                   /\ calls'[i].value = GetterError
             /\ DereferencedAfresh(i)
     /\ NoLaterDeref]_vars

\* After an attempt that left a report the input and the schema state are
\* no longer those of the construction, and a new attempt waits for the
\* validation of the new input against the new schema.
C16_Witness ==
  \E i \in DOMAIN calls :
    /\ calls[i].hadErrors
    /\ calls[i].pc = "validating" /\ calls[i].derefs = <<"input", "schema">>
    /\ calls[i].input = Obj(<<CH>>) /\ calls[i].schema = Schema(0)

----------------------------------------------------------------------------
\* An attempt of the other controller is in flight when call i is made on
\* controller c.
OtherInFlight(i, c) ==
  \E j \in DOMAIN calls : j # i /\ Active(calls[j]) /\ calls[j].ctrl # c

\* The flag the caller handed to both controllers is raised exactly while
\* an attempt of either is in flight.
FlagTracksAttempts ==
  submitting[SharedCell] <=> \E i \in DOMAIN calls : Active(calls[i])

\* C17: of two controllers built with the same submitting cell, a call on
\* one made while an attempt of the other is in flight is a no-op (it
\* resolves to undefined, the callback is not invoked, no cell is written),
\* and the shared flag is true exactly while an attempt of either is in
\* flight.
C17_SharedFlagGuard ==
  [][/\ \A i \in DOMAIN calls :
          (Made(i) /\ OtherInFlight(i, calls'[i].ctrl))
          => /\ DidNothing(calls'[i])
             /\ UNCHANGED <<submitting, submitted, errors, form>>
     /\ SettledForGood
     /\ FlagTracksAttempts /\ FlagTracksAttempts']_vars

\* While an attempt of one controller, which found the report of an
\* earlier attempt, was in its callback or waiting for onErrors, a call on
\* the other controller was turned away.
C17_Witness ==
  \E i, j \in DOMAIN calls :
    /\ calls[i].ctrl # calls[j].ctrl
    /\ calls[i].pc \in {"awaitOnErrors", "inCallback"} /\ calls[i].hadErrors
    /\ DidNothing(calls[j])
    /\ submitting[SharedCell]

----------------------------------------------------------------------------
\* The validation, the callback or onErrors of the attempt is executing or
\* suspended.
UserCodePending(call) ==
  \/ call.pc \in {"validating", "inCallback"}
  \/ call.pc = "awaitOnErrors" /\ call.onErrorsArgs # <<>>

\* The flag is raised while the validation, the callback or onErrors of an
\* attempt is pending.
RaisedWhilePending ==
  \A i \in DOMAIN calls : UserCodePending(calls[i]) => SubmittingOf(calls[i])

\* C18 as stated: submitting is true whenever the validation, the callback
\* or onErrors of an attempt is executing or suspended, and false whenever
\* no attempt of the controller is in flight.
C18_Original ==
  /\ RaisedWhilePending
  /\ \A c \in Controllers :
       (~\E i \in DOMAIN calls : Active(calls[i]) /\ calls[i].ctrl = c)
       => ~submitting[cfg[c].submittingCell]

\* C18 as amended: submitting is true whenever the validation, the callback
\* or onErrors of an attempt is executing or suspended, and false whenever
\* no attempt is in flight of the controller or of a controller that was
\* given the same submitting cell.
C18_FlagSpansAttempt ==
  /\ RaisedWhilePending
  /\ \A c \in Controllers :
       (~\E i \in DOMAIN calls :
            Active(calls[i]) /\ cfg[calls[i].ctrl].submittingCell = cfg[c].submittingCell)
       => ~submitting[cfg[c].submittingCell]

\* The first of two controllers on one flag waits for its onErrors: the
\* flag of the second is true though no attempt of the second is in flight.
C18_Witness ==
  \E i \in DOMAIN calls :
    /\ calls[i].ctrl = 1 /\ calls[i].pc = "awaitOnErrors" /\ calls[i].onErrorsArgs # <<>>
    /\ cfg[2].submittingCell = cfg[1].submittingCell
    /\ submitting[cfg[2].submittingCell]
    /\ \A j \in DOMAIN calls : calls[j].ctrl = 2 => ~Active(calls[j])

----------------------------------------------------------------------------
\* Call i is made in this step while no attempt of its controller is in
\* flight.
MadeBetweenAttempts(i) ==
  /\ Made(i)
  /\ \A j \in DOMAIN calls : Active(calls[j]) => calls[j].ctrl # calls'[i].ctrl

\* Call i is made in this step while no attempt is in flight on the flag of
\* its controller.
MadeWhileFlagFree(i) ==
  /\ Made(i)
  /\ \A j \in DOMAIN calls :
       Active(calls[j]) =>
         cfg[calls[j].ctrl].submittingCell # cfg[calls'[i].ctrl].submittingCell

\* The call made in this step passed the guard and began a fresh attempt:
\* submitted and errors are reset, and the flag is raised unless the form
\* element is invalid.
BeginsAfresh(i) ==
  /\ ~DidNothing(calls'[i])
  /\ calls'[i].raised \/ calls'[i].formReports = 1
  /\ calls'[i].pc \notin {"done", "idle"} => SubmittingAfter(calls'[i])
  /\ ~SubmittedAfter(calls'[i]) /\ ErrorsAfter(calls'[i]) = Undefined

\* The input of the attempt is valid: the validation succeeded, or there is
\* no schema and the attempt went on to the callback.
ValidInput(call) ==
  /\ call.raised
  /\ call.derefs \in {<<>>, <<"input">>} \/ call.parsed = 1
  /\ ~ValidationFailed(call)
  /\ call.pc \in {"thenPending", "inCallback", "thenSettled", "chainSettled", "awaitOnErrors"}

\* The callback of the attempt, if any, returned without throwing and left
\* errors alone.
CallbackSucceeded(call) ==
  /\ call.chainResult # Undefined /\ call.chainResult.t = "fulfilled"
  /\ ~CallbackThrew(call)

----------------------------------------------------------------------------
\* What an attempt leaves in errors, told from the attempt alone: the
\* flattened issues of its failed validation, else the report of the
\* SubmitError its callback threw, else what its callback assigned, else
\* nothing.
ExpectedErrors(call) ==
  IF ValidationFailed(call) THEN flatten(call.res.issues)
  ELSE IF ThrewSubmitError(call) THEN call.thenResult.err.errors
  ELSE IF call.cbAssigned # <<>> THEN call.cbAssigned[Len(call.cbAssigned)]
  ELSE Undefined

\* What an attempt leaves in submitted, told from the attempt alone: true
\* when it came through the callback without an exception and leaves no
\* report.
ExpectedSubmitted(call) ==
  /\ call.chainResult # Undefined /\ call.chainResult.t = "fulfilled"
  /\ ExpectedErrors(call) = Undefined

\* The record of the attempt that ends in this step, its locals included.
EndingAttempt(i) == IF Made(i) THEN calls'[i] ELSE calls[i]

\* C20: submitted and errors at the end of an attempt are determined by the
\* input, the schema and the behaviour of the callback of that attempt
\* alone: they are a function of the attempt's own validation result and of
\* what its callback threw, assigned and returned, whatever the earlier
\* attempts on the controller left behind, so two runs that differ only in
\* the outcomes of earlier attempts end the attempt in the same state.
C20_OutcomeOfAttemptAlone ==
  [][\A i \in DOMAIN calls :
       (Settles(i) /\ calls'[i].raised)
         => /\ ErrorsAfter(calls'[i]) = ExpectedErrors(EndingAttempt(i))
            /\ SubmittedAfter(calls'[i]) = ExpectedSubmitted(EndingAttempt(i))]_vars

\* An attempt that began with the report of an earlier attempt in errors
\* and whose callback returned ended with submitted true and errors absent,
\* as it does on a new controller.
C20_Witness ==
  \E i \in DOMAIN calls :
    /\ calls[i].hadErrors /\ ~calls[i].afterThrow
    /\ cfg[calls[i].ctrl].hasSubmit /\ cfg[calls[i].ctrl].hasInput
    /\ calls[i].pc = "done" /\ calls[i].state = "fulfilled" /\ calls[i].value = Num(123)
    /\ calls[i].cbCalls = 1 /\ calls[i].onErrorsArgs = <<>>
    /\ SubmittedOf(calls[i]) /\ ErrorsOf(calls[i]) = Undefined

----------------------------------------------------------------------------
\* The cell of each kind the controller returns is the one the caller
\* supplied.
ReturnsSuppliedCells(k) ==
  /\ k.supplied.form # 0 => k.formCell = k.supplied.form
  /\ k.supplied.submitting # 0 => k.submittingCell = k.supplied.submitting
  /\ k.supplied.submitted # 0 => k.submittedCell = k.supplied.submitted
  /\ k.supplied.errors # 0 => k.errorsCell = k.supplied.errors

\* The attempt that ends in this step is clean: it came through validation
\* and callback and leaves no report.
EndsClean(i) ==
  /\ Settles(i) /\ calls[i].pc = "chainSettled"
  /\ calls'[i].state = "fulfilled" /\ calls'[i].onErrorsArgs = <<>>

\* C21: when the caller supplies cells for form, submitting, submitted or
\* errors, the controller returns those same cells and reads and writes
\* them, not cells of its own: the gate reads the caller's form, an attempt
\* in flight shows in the caller's submitting, a failed validation shows in
\* the caller's errors, and the caller's submitted is true after a clean
\* attempt.
C21_SuppliedCellsUsed ==
  [][\A c \in Controllers :
       LET k == cfg[c]
       IN /\ ReturnsSuppliedCells(k)
          /\ \A i \in DOMAIN calls :
               calls'[i].ctrl = c =>
                 /\ (k.supplied.submitted # 0 /\ EndsClean(i))
                      => submitted'[k.supplied.submitted]
                 /\ (k.supplied.submitting # 0 /\ Active(calls'[i]))
                      => submitting'[k.supplied.submitting]
                 /\ (k.supplied.errors # 0 /\ Settles(i) /\ calls'[i].onErrorsArgs # <<>>)
                      => errors'[k.supplied.errors] = calls'[i].onErrorsArgs[1]
                 /\ (k.supplied.form # 0 /\ Made(i) /\ calls'[i].raised)
                      => form[k.supplied.form] # "invalid"]_vars

\* All four cells are the caller's, and the caller's submitted is true
\* after a clean attempt while the cell the controller would have made is
\* untouched.
C21_Witness ==
  \E i \in DOMAIN calls :
    LET k == cfg[calls[i].ctrl]
    IN /\ k.supplied = [form |-> UserCell, errors |-> UserCell,
                        submitting |-> UserCell, submitted |-> UserCell]
       /\ calls[i].pc = "done" /\ calls[i].state = "fulfilled" /\ calls[i].raised
       /\ calls[i].cbCalls = 1 /\ calls[i].parsed = 1
       /\ submitted[UserCell] /\ ~submitted[1]
       /\ errors[UserCell] = Undefined /\ ~submitting[UserCell]

----------------------------------------------------------------------------
\* The cells of useParse agree with its result.
CellsOf(w) ==
  IF w.result.success
  THEN w.output = w.result.output /\ w.errors = Undefined
  ELSE w.output = Undefined /\ w.errors = flatten(w.result.issues)

\* The validation of the input against the schema, as they are now.
CurrentResult == safeParse(Schema(schemaMin), inputVal)

\* C22: after every evaluation of useParse, when the validation of the
\* current input against the current schema succeeded, output is the parsed
\* output and errors is absent; when it failed, output is absent and errors
\* is the flattened issues; output and errors are never both present.
C22_WatcherCellsAgree ==
  watcher.mode # "none" =>
    /\ CellsOf(watcher)
    /\ ~watcher.dirty => watcher.result = CurrentResult
    /\ ~(watcher.output # Undefined /\ watcher.errors # Undefined)

\* The input has become undefined and the queued job has run: output is
\* absent and errors holds the message of the root issue.
C22_Witness ==
  /\ watcher.mode = "pre" /\ ~watcher.dirty
  /\ inputVal = Undefined
  /\ ~watcher.result.success
  /\ watcher.output = Undefined
  /\ watcher.errors = [root |-> <<"Invalid type">>]

\* C23: every change of the input or of the schema triggers the effect of
\* useParse whether or not a submitting flag is up: with flush "sync" the
\* result, output and errors cells reflect the new input and schema right
\* after the change; otherwise the re-evaluation is queued.
C23_WatcherNotGated ==
  [][(watcher.mode # "none" /\ (inputVal' # inputVal \/ schemaMin' # schemaMin))
       => IF watcher.mode = "sync"
          THEN /\ watcher'.result = safeParse(Schema(schemaMin'), inputVal')
               /\ CellsOf(watcher')
               /\ ~watcher'.dirty
          ELSE watcher'.dirty]_vars

\* The input was changed while an attempt was in flight with the flag up,
\* and with flush "sync" the cells hold the parse of the new input.
C23_Witness ==
  /\ watcher.mode = "sync" /\ watcher.flagAtChange
  /\ \E i \in DOMAIN calls : calls[i].pc = "inCallback" /\ SubmittingOf(calls[i])
  /\ inputVal = Obj(<<CH>>)
  /\ watcher.result.success /\ watcher.output = Obj(<<CH>>) /\ watcher.errors = Undefined

----------------------------------------------------------------------------
\* The five outcomes of an attempt, told from the record of the attempt that
\* ends in the step.

\* The schema rejected the input.
ValidationFailureOutcome(i) == ValidationFailed(EndingAttempt(i))

\* The callback threw a SubmitError.
DeclaredErrorOutcome(i) == ThrewSubmitError(EndingAttempt(i))

\* The callback wrote a report into errors and returned without throwing.
ManualAssignmentOutcome(i) ==
  LET own == EndingAttempt(i)
  IN /\ own.cbAssigned # <<>> /\ own.cbAssigned[Len(own.cbAssigned)] # Undefined
     /\ own.thenResult # Undefined /\ own.thenResult.t = "fulfilled"

\* The attempt set submitted.
CleanSuccessOutcome(i) ==
  calls'[i].state = "fulfilled" /\ SubmittedAfter(calls'[i])

\* An error other than SubmitError was raised by the callback or by
\* dereferencing the input or the schema.
UndeclaredExceptionOutcome(i) ==
  \/ ThrewOther(EndingAttempt(i))
  \/ calls'[i].state = "rejected" /\ calls'[i].value = GetterError

\* The validation itself threw.
EngineExceptionOutcome(i) ==
  calls'[i].state = "rejected" /\ calls'[i].value = EngineError

\* How many of the outcomes fit.
HowMany(outcomes) == Cardinality({n \in DOMAIN outcomes : outcomes[n]})

\* C24 as stated: every attempt that passes the guard and the gate ends in
\* exactly one of validation failure, declared submission error, manual
\* assignment, clean success and undeclared exception (an error raised by
\* the callback or by dereferencing input or schema).
C24_Original ==
  [][\A i \in DOMAIN calls :
       (Settles(i) /\ calls'[i].raised)
         => HowMany(<<ValidationFailureOutcome(i), DeclaredErrorOutcome(i),
                      ManualAssignmentOutcome(i), CleanSuccessOutcome(i),
                      UndeclaredExceptionOutcome(i)>>) = 1]_vars

\* C24 as amended: every attempt that passes the guard and the gate ends in
\* exactly one of validation failure, declared submission error, manual
\* assignment, clean success and undeclared exception, when undeclared
\* exception takes in an error thrown by the validation as well as one
\* raised by the callback or by dereferencing input or schema; an error
\* thrown by onErrors leaves the attempt in the one of the first three
\* outcomes it had.
C24_ExactlyOneOutcome ==
  [][\A i \in DOMAIN calls :
       (Settles(i) /\ calls'[i].raised)
         => /\ HowMany(<<ValidationFailureOutcome(i), DeclaredErrorOutcome(i),
                         ManualAssignmentOutcome(i), CleanSuccessOutcome(i),
                         UndeclaredExceptionOutcome(i) \/ EngineExceptionOutcome(i)>>) = 1
            /\ calls'[i].value = OnErrorsError
                 => \/ ValidationFailureOutcome(i) \/ DeclaredErrorOutcome(i)
                    \/ ManualAssignmentOutcome(i)]_vars

\* An attempt was ended by an error the validation threw.
C24_Witness ==
  \E i \in DOMAIN calls :
    /\ calls[i].pc = "done" /\ calls[i].raised /\ calls[i].lowered
    /\ calls[i].state = "rejected" /\ calls[i].value = EngineError
    /\ calls[i].derefs = <<"input", "schema">> /\ calls[i].cbCalls = 0

----------------------------------------------------------------------------
\* The attempt that ends in this step has one of the three outcomes that
\* are reported through errors.
ReportedOutcome(i) ==
  /\ Settles(i) /\ calls'[i].raised
  /\ \/ ValidationFailureOutcome(i)
     \/ DeclaredErrorOutcome(i)
     \/ ManualAssignmentOutcome(i)

\* C25 as stated: the promise of an attempt that ends in validation
\* failure, in a SubmitError or in a manual assignment never rejects; the
\* outcome shows in errors, in submitted and through onErrors only.
C25_Original ==
  [][\A i \in DOMAIN calls :
       ReportedOutcome(i)
         => /\ calls'[i].state = "fulfilled"
            /\ ErrorsAfter(calls'[i]) # Undefined /\ ~SubmittedAfter(calls'[i])]_vars

\* C25 as amended: the promise of an attempt that ends in validation
\* failure, in a SubmitError or in a manual assignment rejects only when
\* onErrors throws, and then with the error onErrors threw; in every case
\* errors holds the report and submitted is false.
C25_RejectsOnlyFromOnErrors ==
  [][\A i \in DOMAIN calls :
       ReportedOutcome(i)
         => /\ calls'[i].state = "fulfilled"
               \/ /\ cfg[calls'[i].ctrl].hasOnErrors
                  /\ calls'[i].state = "rejected" /\ calls'[i].value = OnErrorsError
            /\ ~cfg[calls'[i].ctrl].hasOnErrors => calls'[i].state = "fulfilled"
            /\ ErrorsAfter(calls'[i]) # Undefined /\ ~SubmittedAfter(calls'[i])]_vars

\* A controller without onErrors: the validation failed and the promise of
\* the attempt was fulfilled with undefined, the report being in errors.
C25_Witness ==
  \E i \in DOMAIN calls :
    /\ ~cfg[calls[i].ctrl].hasOnErrors /\ cfg[calls[i].ctrl].hasSubmit
    /\ calls[i].pc = "done" /\ calls[i].parsed = 1 /\ calls[i].cbCalls = 0
    /\ calls[i].state = "fulfilled" /\ calls[i].value = Undefined
    /\ ErrorsOf(calls[i]) = [nested |-> <<[path |-> "foo", messages |-> <<"Please enter foo.">>]>>]
    /\ ~SubmittedOf(calls[i])

----------------------------------------------------------------------------
\* The call made in this step is stopped by the form.
StoppedByForm(i) == Made(i) /\ calls'[i].formReports = 1

\* C26: the reset runs before the native validation: when the form stops a
\* call, submitted has already been set to false and errors has already
\* been cleared, so neither a true submitted nor a report of an earlier
\* attempt survives the call.
C26_ResetBeforeGate ==
  [][\A i \in DOMAIN calls :
       StoppedByForm(i)
         => /\ ~SubmittedAfter(calls'[i])
            /\ ErrorsAfter(calls'[i]) = Undefined]_vars

\* A call made with a report in errors was stopped by the form, and errors
\* is absent.
C26_Witness ==
  \E i \in DOMAIN calls :
    /\ calls[i].pc = "done" /\ calls[i].formReports = 1 /\ ~calls[i].raised
    /\ calls[i].hadErrors
    /\ ErrorsOf(calls[i]) = Undefined /\ ~SubmittedOf(calls[i])

\* C27 as stated: the native validation occurs before the reset of
\* submitted: when the form stops a call, submitted keeps the value it had
\* before the call.
C27_Original ==
  [][\A i \in DOMAIN calls :
       StoppedByForm(i) => SubmittedAfter(calls'[i]) = SubmittedOf(calls'[i])]_vars

\* C27 as amended: the native validation occurs after the reset of
\* submitted and before the flag is raised: when the form stops a call,
\* submitted is false whatever value it had before the call, and submitting
\* is left as it was.
C27_GateAfterReset ==
  [][\A i \in DOMAIN calls :
       StoppedByForm(i)
         => /\ SubmittedAfter(calls'[i]) = FALSE
            /\ ~calls'[i].raised /\ ~calls'[i].lowered
            /\ submitting' = submitting]_vars

\* A call made while submitted was true was stopped by the form, and
\* submitted is false.
C27_Witness ==
  \E i \in DOMAIN calls :
    /\ calls[i].pc = "done" /\ calls[i].formReports = 1 /\ ~calls[i].raised
    /\ calls[i].hadSubmitted
    /\ ~SubmittedOf(calls[i]) /\ ~SubmittingOf(calls[i])

----------------------------------------------------------------------------
\* Call i is at the step after the callback chain, its validation (if any)
\* succeeded, its callback (if any) ended without an error that propagates,
\* and errors is absent.
AtCleanResolution(i) ==
  /\ calls[i].pc = "chainSettled"
  /\ ~ValidationFailed(calls[i])
  /\ cfg[calls[i].ctrl].hasSchema => calls[i].parsed = 1 /\ calls[i].res.success
  /\ calls[i].chainResult.t = "fulfilled"
  /\ ErrorsOf(calls[i]) = Undefined

\* C28: submitted is written true in one place only, the step after the
\* callback chain of an attempt whose validation (if any) succeeded, whose
\* callback (if any) ended without a propagating error and which finds
\* errors absent; so submitted is false from the reset of an attempt up to
\* that step, while the validation or the callback is executing included.
C28_SubmittedSetInOnePlace ==
  [][/\ \A cell \in DOMAIN submitted :
          (submitted'[cell] /\ ~submitted[cell])
            => \E i \in DOMAIN calls :
                 /\ cfg[calls[i].ctrl].submittedCell = cell
                 /\ AtCleanResolution(i)
                 /\ Settles(i) /\ calls'[i].state = "fulfilled"
     /\ \A i \in DOMAIN calls : Active(calls[i]) => ~SubmittedOf(calls[i])]_vars

\* The validation succeeded and the callback has returned: the attempt is
\* at the one step that sets submitted, which is still false.
C28_Witness ==
  \E i \in DOMAIN calls :
    /\ AtCleanResolution(i)
    /\ calls[i].parsed = 1 /\ calls[i].cbCalls = 1
    /\ calls[i].thenResult = Fulfilled(Num(123))
    /\ ~SubmittedOf(calls[i]) /\ SubmittingOf(calls[i])

----------------------------------------------------------------------------
\* The attempt begun in this step ends in it: dereferencing the input or
\* evaluating the schema getter threw.
GetterThrew(i) == Made(i) /\ calls'[i].raised /\ calls'[i].pc = "done"

\* C29: when dereferencing the input or evaluating the schema getter throws,
\* submit rejects with that error, neither the validation nor the callback
\* nor onErrors is run, submitted stays false, errors stays absent and
\* submitting is lowered.
C29_GetterErrorPropagates ==
  [][\A i \in DOMAIN calls :
       GetterThrew(i)
         => /\ calls'[i].state = "rejected" /\ calls'[i].value = GetterError
            /\ calls'[i].derefs \in {<<"input">>, <<"schema">>, <<"input", "schema">>}
            /\ calls'[i].parsed = 0 /\ calls'[i].cbCalls = 0
            /\ calls'[i].onErrorsArgs = <<>>
            /\ ~SubmittedAfter(calls'[i])
            /\ ErrorsAfter(calls'[i]) = Undefined
            /\ calls'[i].lowered /\ ~SubmittingAfter(calls'[i])]_vars

\* The schema getter threw in an attempt made with a report in errors: the
\* call has rejected with the error, errors is absent and the flag is down.
C29_Witness ==
  \E i \in DOMAIN calls :
    /\ calls[i].pc = "done" /\ calls[i].raised /\ calls[i].hadErrors
    /\ calls[i].derefs = <<"input", "schema">> /\ calls[i].parsed = 0
    /\ calls[i].state = "rejected" /\ calls[i].value = GetterError
    /\ ErrorsOf(calls[i]) = Undefined /\ ~SubmittedOf(calls[i])
    /\ ~SubmittingOf(calls[i])

----------------------------------------------------------------------------
\* The callback of the attempt assigned a report to errors and then threw
\* an error that is not a SubmitError.
AssignedAndThrewOther(call) ==
  /\ call.cbAssigned # <<>> /\ call.cbAssigned[Len(call.cbAssigned)] # Undefined
  /\ ThrewOther(call)

\* C30: when the callback assigns a report to errors and then throws an
\* error that is not a SubmitError, the controller leaves the cells as the
\* callback left them: errors keeps the assigned report, submitted stays
\* false, onErrors is not invoked, submit rejects with the error, and the
\* only cell written on the way out is submitting, which is lowered.
C30_CellsLeftAsCallbackLeftThem ==
  [][\A i \in DOMAIN calls :
       (AssignedAndThrewOther(calls[i]) /\ calls[i].pc \in {"thenSettled", "chainSettled"})
         => /\ errors' = errors /\ submitted' = submitted
            /\ ErrorsAfter(calls[i]) = calls[i].cbAssigned[Len(calls[i].cbAssigned)]
            /\ ~SubmittedAfter(calls[i])
            /\ calls'[i].onErrorsArgs = <<>>
            /\ Settles(i)
                 => /\ calls'[i].state = "rejected"
                    /\ calls'[i].value = calls[i].thenResult.err
                    /\ calls'[i].lowered /\ ~SubmittingAfter(calls[i])]_vars

\* The callback assigned a report and threw: submit has rejected with the
\* error, errors holds the report, onErrors was not called, the flag is
\* down.
C30_Witness ==
  \E i \in DOMAIN calls :
    /\ cfg[calls[i].ctrl].hasOnErrors
    /\ calls[i].pc = "done" /\ calls[i].cbCalls = 1
    /\ calls[i].state = "rejected" /\ calls[i].value = GenericError
    /\ calls[i].onErrorsArgs = <<>>
    /\ ErrorsOf(calls[i]) = ManualReport /\ ~SubmittedOf(calls[i])
    /\ ~SubmittingOf(calls[i])

----------------------------------------------------------------------------
\* Call i is an attempt in flight before the step.
InFlight(i) == calls[i].pc \notin {"idle", "done"}

\* The callback of call i is invoked in this step.
CallbackStarts(i) == InFlight(i) /\ calls'[i].cbCalls = calls[i].cbCalls + 1

\* onErrors of call i is invoked in this step.
OnErrorsStarts(i) == InFlight(i) /\ Len(calls'[i].onErrorsArgs) = Len(calls[i].onErrorsArgs) + 1

\* C31: the steps of one attempt run one after the other: the validation
\* has completed when the callback starts, the callback has settled when
\* onErrors starts or submitted is set, and onErrors has settled when the
\* flag is lowered and the promise of submit settles.
C31_StepsInSequence ==
  [][\A i \in DOMAIN calls :
       /\ CallbackStarts(i)
            => /\ calls[i].pc = "thenPending" /\ calls[i].onErrorsArgs = <<>>
               /\ cfg[calls[i].ctrl].hasSchema
                    => calls[i].parsed = 1 /\ calls[i].res # Undefined /\ calls[i].res.success
       /\ OnErrorsStarts(i)
            => /\ calls[i].onErrorsArgs = <<>>
               /\ calls[i].cbCalls = 0 \/ calls[i].chainResult # Undefined
               /\ calls[i].cbCalls = 0 => ValidationFailed(calls'[i])
               /\ calls'[i].state = "pending" /\ ~calls'[i].lowered
               /\ SubmittingAfter(calls[i])
       /\ (InFlight(i) /\ SubmittedAfter(calls[i]))
            => calls[i].pc = "chainSettled" /\ calls[i].chainResult # Undefined
       /\ (InFlight(i) /\ calls[i].pc = "awaitOnErrors")
            => /\ SubmittingOf(calls[i]) /\ calls[i].state = "pending" /\ ~calls[i].lowered
               /\ calls'[i] # calls[i] => calls'[i].pc = "done" /\ calls'[i].lowered
       /\ (InFlight(i) /\ calls[i].pc \in {"validating", "inCallback"})
            => /\ calls[i].state = "pending" /\ SubmittingOf(calls[i])
               /\ calls[i].onErrorsArgs = <<>> /\ ~SubmittedOf(calls[i])]_vars

\* The validation succeeded, the callback ran and threw a SubmitError, and
\* the attempt waits for onErrors with the flag up and its promise pending.
C31_Witness ==
  \E i \in DOMAIN calls :
    /\ calls[i].pc = "awaitOnErrors" /\ calls[i].parsed = 1 /\ calls[i].cbCalls = 1
    /\ ThrewSubmitError(calls[i]) /\ calls[i].chainResult = Fulfilled(Undefined)
    /\ calls[i].onErrorsArgs = <<ManualReport>>
    /\ calls[i].state = "pending" /\ SubmittingOf(calls[i]) /\ ~SubmittedOf(calls[i])

----------------------------------------------------------------------------
\* C32: when the validation, the callback and onErrors each settle in the
\* end, every attempt that raises submitting lowers it in the end and its
\* promise settles: the attempt is not abandoned on the way.
C32_AttemptCompletes ==
  \A i \in 1..MaxCalls :
    Active(calls[i])
      ~> (/\ calls[i].pc = "done" /\ calls[i].state # "pending"
          /\ calls[i].raised /\ calls[i].lowered
          /\ ~SubmittingOf(calls[i]))

\* An attempt has gone through validation, a callback that threw a
\* SubmitError with an empty report, and onErrors, and has settled with the
\* flag down.
C32_Witness ==
  \E i \in DOMAIN calls :
    /\ calls[i].pc = "done" /\ calls[i].raised /\ calls[i].lowered
    /\ calls[i].parsed = 1 /\ calls[i].cbCalls = 1
    /\ calls[i].onErrorsArgs = <<EmptyReport>>
    /\ calls[i].state = "fulfilled" /\ calls[i].value = Undefined
    /\ ErrorsOf(calls[i]) = EmptyReport /\ ~SubmittingOf(calls[i])

----------------------------------------------------------------------------
\* The controller was built with an input or with a schema.
BuiltWithInputOrSchema(k) == k.hasInput \/ k.hasSchema

----------------------------------------------------------------------------
\* C34: the controller never assigns the form cell: the form changes only
\* in steps of the page, in which no call moves and no cell of the
\* controller is written.  A call checks the validity of the form at most
\* once, and not at all when the guard turns it away or when there is no
\* form element; it triggers the report only when that check found the
\* form invalid.
C34_FormOnlyChecked ==
  [][/\ form' # form => calls' = calls /\ UNCHANGED <<submitting, submitted, errors>>
     /\ \A i \in DOMAIN calls :
          /\ calls'[i].formChecks \in {0, 1}
          /\ calls'[i].formReports \in {0, 1}
          /\ calls'[i].formReports <= calls'[i].formChecks
          /\ Made(i)
               => LET f == form[cfg[calls'[i].ctrl].formCell]
                  IN /\ calls'[i].formReports = 1 <=> (~DidNothing(calls'[i]) /\ f = "invalid")
                     /\ calls'[i].formChecks = 1 <=> (~DidNothing(calls'[i]) /\ f # "none")
          /\ ~Made(i) /\ calls'[i].pc # "idle"
               => /\ calls'[i].formChecks = calls[i].formChecks
                  /\ calls'[i].formReports = calls[i].formReports]_vars

\* An attempt found the form valid: it checked it once, triggered no report
\* and went on to its callback; the form is as it was.
C34_Witness ==
  \E i \in DOMAIN calls :
    /\ calls[i].pc = "inCallback" /\ calls[i].raised
    /\ calls[i].formChecks = 1 /\ calls[i].formReports = 0
    /\ form[cfg[calls[i].ctrl].formCell] = "valid"

----------------------------------------------------------------------------
\* How many times onErrors was invoked in the call.
OnErrorsCalls(call) == Len(call.onErrorsArgs)

\* C35 as stated: onErrors is invoked at most once in a call of submit:
\* once in an attempt that ends with errors present, a failed validation
\* not triggering it again after the callback step, and not at all in a
\* call the guard or the form turned away nor in an attempt that ends in
\* clean success.
C35_Original ==
  [][\A i \in DOMAIN calls :
       /\ OnErrorsCalls(calls'[i]) <= 1
       /\ Settles(i)
            => /\ (/\ calls'[i].raised /\ cfg[calls'[i].ctrl].hasOnErrors
                   /\ ErrorsAfter(calls'[i]) # Undefined)
                    => OnErrorsCalls(calls'[i]) = 1
               /\ ~calls'[i].raised => OnErrorsCalls(calls'[i]) = 0
               /\ CleanSuccessOutcome(i) => OnErrorsCalls(calls'[i]) = 0]_vars

\* C35 as amended: onErrors is invoked at most once in a call of submit:
\* once in an attempt that ends with errors present, unless its callback
\* threw an error that is not a SubmitError, and then not at all; not at all
\* in a call the guard or the form turned away nor in an attempt that ends
\* in clean success.
C35_OnErrorsAtMostOnce ==
  [][\A i \in DOMAIN calls :
       /\ OnErrorsCalls(calls'[i]) <= 1
       /\ Settles(i)
            => /\ (/\ calls'[i].raised /\ cfg[calls'[i].ctrl].hasOnErrors
                   /\ ErrorsAfter(calls'[i]) # Undefined)
                    => OnErrorsCalls(calls'[i]) =
                         IF ThrewOther(EndingAttempt(i)) THEN 0 ELSE 1
               /\ ~calls'[i].raised => OnErrorsCalls(calls'[i]) = 0
               /\ CleanSuccessOutcome(i) => OnErrorsCalls(calls'[i]) = 0]_vars

\* The validation failed: the attempt has ended without invoking the
\* callback, and onErrors was invoked once, with the flattened issues.
C35_Witness ==
  \E i \in DOMAIN calls :
    /\ cfg[calls[i].ctrl].hasOnErrors /\ cfg[calls[i].ctrl].hasSubmit
    /\ calls[i].pc = "done" /\ calls[i].parsed = 1 /\ calls[i].cbCalls = 0
    /\ OnErrorsCalls(calls[i]) = 1
    /\ calls[i].onErrorsArgs[1] = ErrorsOf(calls[i])
    /\ calls[i].state = "fulfilled"

----------------------------------------------------------------------------
\* C36: two controllers share the errors and submitted cells and have
\* separate submitting flags; however their attempts interleave, submitted
\* true implies errors absent when an attempt completes, and onErrors of a
\* controller is invoked only with a report its own attempt produced (by
\* its validation, by a SubmitError of its callback or by an assignment in
\* its callback).
C36_SharedReportIsolated ==
  [][\A i \in DOMAIN calls :
       /\ (Settles(i) /\ calls'[i].raised)
            => (SubmittedAfter(calls'[i]) => ErrorsAfter(calls'[i]) = Undefined)
       /\ OnErrorsStarts(i)
            => calls'[i].onErrorsArgs[1] = ExpectedErrors(calls'[i])]_vars

----------------------------------------------------------------------------
\* C37: when onErrors throws or rejects, the promise of the attempt rejects
\* with that error, submitting is lowered to false, errors keeps the report
\* onErrors was called with, and submitted stays false.
C37_OnErrorsErrorPropagates ==
  [][\A i \in DOMAIN calls :
       (calls[i].pc = "awaitOnErrors" /\ Settles(i) /\ calls'[i].onErrorsThrew)
         => /\ calls'[i].state = "rejected" /\ calls'[i].value = OnErrorsError
            /\ ~SubmittingAfter(calls'[i])
            /\ ErrorsAfter(calls'[i]) = ErrorsOf(calls[i])
            /\ ErrorsAfter(calls'[i]) # Undefined
            /\ ErrorsAfter(calls'[i]) = calls'[i].onErrorsArgs[Len(calls'[i].onErrorsArgs)]
            /\ ~SubmittedOf(calls[i]) /\ ~SubmittedAfter(calls'[i])]_vars

\* The callback ran and declared a report, onErrors was called with it and
\* threw: the attempt is rejected with the error of onErrors, the flag is
\* down, the report is still in errors and submitted is false.
C37_Witness ==
  \E i \in DOMAIN calls :
    /\ calls[i].pc = "done" /\ calls[i].onErrorsThrew /\ calls[i].cbCalls = 1
    /\ calls[i].state = "rejected" /\ calls[i].value = OnErrorsError
    /\ ~SubmittingOf(calls[i]) /\ ~SubmittedOf(calls[i])
    /\ Len(calls[i].onErrorsArgs) = 1 /\ ErrorsOf(calls[i]) = calls[i].onErrorsArgs[1]

----------------------------------------------------------------------------
\* An attempt on the flag of call i is unsettled before the step and is not
\* settled by it.
HeldAcross(i) == Active(calls[i]) /\ ~Settles(i)

\* C38: as long as the validation, the callback or onErrors of an attempt
\* has not settled, submitting stays true whatever else happens, and every
\* call made meanwhile on the controller or on a controller with the same
\* flag resolves to undefined without doing anything; the flag goes from
\* true to false only in the step that settles the attempt which raised it.
C38_FlagHeldUntilSettled ==
  [][/\ \A i \in DOMAIN calls :
          HeldAcross(i)
          => /\ SubmittingOf(calls[i]) /\ SubmittingAfter(calls[i])
             /\ Active(calls'[i])
             /\ \A j \in DOMAIN calls :
                  (Made(j) /\ cfg[calls'[j].ctrl].submittingCell
                                = cfg[calls[i].ctrl].submittingCell)
                  => DidNothing(calls'[j]) /\ calls'[j].cbCalls = 0
     /\ \A c \in DOMAIN submitting :
          (submitting[c] /\ ~submitting'[c])
          => \E i \in DOMAIN calls :
               /\ Active(calls[i]) /\ Settles(i)
               /\ cfg[calls[i].ctrl].submittingCell = c]_vars

\* The validation of an attempt of the first controller has not settled;
\* a call made meanwhile on the second, which has the same flag, resolved
\* to undefined without doing anything, and the flag is still true.
C38_Witness ==
  \E i, j \in DOMAIN calls :
    /\ calls[i].ctrl = 1 /\ calls[j].ctrl = 2
    /\ cfg[1].submittingCell = cfg[2].submittingCell
    /\ calls[i].pc = "validating" /\ calls[i].raised
    /\ DidNothing(calls[j])
    /\ SubmittingOf(calls[i])

----------------------------------------------------------------------------
\* The callback chain of call i was fulfilled and the attempt looks at
\* errors in this step.
PostInvocation(i) ==
  /\ calls[i].pc = "chainSettled" /\ calls[i].chainResult.t # "rejected"
  /\ calls'[i].pc # "chainSettled"

\* C39: the step after the callback looks only at whether errors holds a
\* value, not at what the value holds: with any report in the cell, a
\* report without messages included, whether the callback assigned it or
\* a SubmitError carried it, submitted stays false and onErrors is called
\* with that report; with errors undefined, and only then, submitted
\* becomes true and onErrors is not called.
C39_JudgedByPresence ==
  [][\A i \in DOMAIN calls :
       PostInvocation(i)
         => /\ ErrorsOf(calls[i]) # Undefined
                 => /\ ~SubmittedAfter(calls'[i])
                    /\ calls'[i].pc = "awaitOnErrors"
                    /\ cfg[calls[i].ctrl].hasOnErrors
                         => calls'[i].onErrorsArgs
                              = Append(calls[i].onErrorsArgs, ErrorsOf(calls[i]))
            /\ ErrorsOf(calls[i]) = Undefined
                 => /\ SubmittedAfter(calls'[i])
                    /\ calls'[i].pc = "done"
                    /\ calls'[i].onErrorsArgs = calls[i].onErrorsArgs
            /\ ~SubmittedOf(calls[i])
            /\ ErrorsAfter(calls'[i]) = ErrorsOf(calls[i])]_vars

\* The callback threw a SubmitError with a report that has no messages,
\* without assigning errors itself: onErrors was called with that report
\* and submitted is false.
C39_Witness ==
  \E i \in DOMAIN calls :
    /\ calls[i].pc = "awaitOnErrors" /\ calls[i].cbCalls = 1
    /\ calls[i].cbAssigned = <<>>
    /\ calls[i].onErrorsArgs = <<EmptyReport>>
    /\ ErrorsOf(calls[i]) = EmptyReport
    /\ ~SubmittedOf(calls[i])

====
